---- MODULE Spec2Model ----
(***************************************************************************)
(* Model of the StructLMM input-preparation pipeline:                      *)
(*   gxg-structlmm-script.py  main(), standardize_columns,                 *)
(*                            ensure_minor_allele_coding                   *)
(*   WorkingLMMscript.py      ensure_minor_allele_coding and the cell that *)
(*                            applies it to g                              *)
(* A run of main() is a sequence of steps, one per block of the function;  *)
(* pc names the block that runs next.  Column names and file lines are     *)
(* sequences of one-character strings so that lower(), `in` and            *)
(* startswith() are computed character by character.  Floating-point       *)
(* values that come out of standardization are kept exactly, as a          *)
(* numerator and a squared divisor (see Divide).                     *)
(***************************************************************************)
EXTENDS Integers, Sequences, FiniteSets, TLC

VARIABLES
    args,               \* parsed command line: phenotype_column, covariates, output
    files,              \* the input files on disk: pcs, pheno, snv, cov; outputWritable
    pc,                 \* the block of main() that runs next
    pcs_df,             \* table read from --pcs (after index_col)
    pheno_df,           \* table read from --phenotype
    snv_df,             \* table read from --snv
    cov_df,             \* table read from --covariates
    phenotype_column,   \* resolved response column
    y,                  \* response vector (raw, then standardized)
    orig_y,             \* [mean, std] of the raw response
    E,                  \* background matrix: [columns, rows, data]
    M,                  \* fixed-effect matrix: [built, rows, ncols]
    g,                  \* genotype vector
    g_hist,             \* g after each application of ensure_minor_allele_coding
    lmm,                \* the engine: [calls, null_lml, alt_lml]
    pv,                 \* p-value returned by score_2dof_inter
    var_explained,      \* [present, ...]
    results,            \* the result record (set of field names) once prepared
    out,                \* what was emitted: pv_printed, record_printed, record_written
    stderr,             \* the error report, if any
    exit_code           \* -1 while running, then 0 or 1

vars == <<args, files, pc, pcs_df, pheno_df, snv_df, cov_df, phenotype_column, y,
          orig_y, E, M, g, g_hist, lmm, pv, var_explained, results, out, stderr,
          exit_code>>

(***************************************************************************)
(* Bounds of the model.                                                    *)
(***************************************************************************)
\* largest number of data rows of an input file in a run of main()
MaxN == 2
\* longest genotype vector given to the allele coder on its own
MaxLen == 9
\* number of times the coding cell is run
MaxPasses == 2
\* widest phenotype table given to the column resolution on its own
MaxCols == 3

(***************************************************************************)
(* Strings.                                                                *)
(***************************************************************************)
UpperChars == <<"A","B","C","D","E","F","G","H","I","J","K","L","M",
                "N","O","P","Q","R","S","T","U","V","W","X","Y","Z">>

LowerChars == <<"a","b","c","d","e","f","g","h","i","j","k","l","m",
                "n","o","p","q","r","s","t","u","v","w","x","y","z">>

\* str.lower() on one character
LowerChar(c) ==
    IF \E i \in 1..26 : UpperChars[i] = c
    THEN LowerChars[CHOOSE i \in 1..26 : UpperChars[i] = c]
    ELSE c

\* str.lower()
Lower(s) == [i \in 1..Len(s) |-> LowerChar(s[i])]

\* sub in s
Contains(s, sub) ==
    \E i \in 1..(Len(s) - Len(sub) + 1) : SubSeq(s, i, i + Len(sub) - 1) = sub

\* s.startswith(prefix)
StartsWith(s, prefix) ==
    /\ Len(s) >= Len(prefix)
    /\ SubSeq(s, 1, Len(prefix)) = prefix

\* the literals of the script
StrPhenotype == <<"p","h","e","n","o","t","y","p","e">>
StrPC == <<"P","C">>
StrHash == <<"#">>

\* the value of an option that was not given (argparse default None)
None == <<"None">>

\* truth value of an option: None and the empty string are both false
Truthy(opt) == opt # None /\ opt # <<>>

(***************************************************************************)
(* Tables (pandas DataFrames): parallel sequences, one entry per column.   *)
(***************************************************************************)
NoTable == [columns |-> <<>>, numeric |-> <<>>, data |-> <<>>, rows |-> 0]

\* the indices 1..n without k, in order
Without(n, k) == [i \in 1..(n - 1) |-> IF i < k THEN i ELSE i + 1]

\* df[[...]] by position: the columns at the positions idx, in that order
TakeColumns(df, idx) ==
    [columns |-> [i \in 1..Len(idx) |-> df.columns[idx[i]]],
     numeric |-> [i \in 1..Len(idx) |-> df.numeric[idx[i]]],
     data    |-> [i \in 1..Len(idx) |-> df.data[idx[i]]],
     rows    |-> df.rows]

\* read_csv(index_col=k-1): column k becomes the row index and is no column
SetIndex(df, k) == TakeColumns(df, Without(Len(df.columns), k))

\* the positions i, in order, at which flags[i] holds
Positions(flags) ==
    SelectSeq([i \in 1..Len(flags) |-> i], LAMBDA i : flags[i])

ColumnSet(df) == {df.columns[i] : i \in 1..Len(df.columns)}

\* df[name]: the data of the first column called name
ColumnData(df, name) ==
    df.data[CHOOSE i \in 1..Len(df.columns) :
                /\ df.columns[i] = name
                /\ \A j \in 1..(i - 1) : df.columns[j] # name]

(***************************************************************************)
(* Column resolution: main(), "Determine phenotype column".                *)
(***************************************************************************)
\* a search that forgets col.lower()
PhenotypeColumnsCaseSensitive(columns) ==
    SelectSeq(columns, LAMBDA col : Contains(col, StrPhenotype))

\* the columns whose lower-cased name contains "phenotype", in table order
PhenotypeColumns(columns) ==
    SelectSeq(columns, LAMBDA col : Contains(Lower(col), StrPhenotype))

\* the name chosen before the existence check; a status other than "ok" is
\* the message of the sys.exit(1) taken
ChoosePhenotypeColumn(columns, opt) ==
    IF Truthy(opt)
    THEN [status |-> "ok", column |-> opt]
    ELSE IF PhenotypeColumns(columns) # <<>>
         THEN [status |-> "ok", column |-> PhenotypeColumns(columns)[1]]
         ELSE IF Len(columns) > 1
              THEN [status |-> "ok", column |-> columns[2]]
              ELSE [status |-> "Cannot determine phenotype column", column |-> None]

\* the whole block, with the check that the chosen column exists
ResolvePhenotypeColumn(columns, opt) ==
    LET chosen == ChoosePhenotypeColumn(columns, opt)
    IN  IF chosen.status # "ok" THEN chosen
        ELSE IF chosen.column \notin {columns[i] : i \in 1..Len(columns)}
             THEN [status |-> "Phenotype column not found", column |-> chosen.column]
             ELSE chosen

(***************************************************************************)
(* Standardization.  For a column col of n integers with sum S:            *)
(*   Centered(col)[i] = n*col[i] - S          = n   * (col[i] - mean)      *)
(*   Std2(col)        = sum of Centered^2     = n^3 * std^2                *)
(* so std = 0 exactly when Std2 = 0, and the value (col[i] - mean) / d is  *)
(* kept exactly as the pair (num, std2) = (n*(col[i]-mean), n^3*d^2).      *)
(* A division by a zero divisor follows IEEE-754 as numpy does: 0/0 is NaN *)
(* and x/0 is an infinity, with a warning and no exception.                *)
(***************************************************************************)
RECURSIVE SumSeq(_)
SumSeq(s) == IF s = <<>> THEN 0 ELSE Head(s) + SumSeq(Tail(s))

Centered(col) == [i \in 1..Len(col) |-> Len(col) * col[i] - SumSeq(col)]

Std2(col) == SumSeq([i \in 1..Len(col) |-> Centered(col)[i] * Centered(col)[i]])

\* the divisor 1.0 in the scaled representation
UnitStd2(n) == n * n * n

\* numpy true division of num by the divisor whose scaled square is std2
Divide(num, std2) ==
    IF std2 # 0 THEN [cls |-> "finite", num |-> num, std2 |-> std2]
    ELSE IF num = 0 THEN [cls |-> "nan", num |-> 0, std2 |-> 0]
    ELSE [cls |-> "inf", num |-> (IF num > 0 THEN 1 ELSE -1), std2 |-> 0]

\* standardize_columns on one column: stds[stds == 0] = 1.0
StandardizeColumn(col) ==
    LET std2 == IF Std2(col) = 0 THEN UnitStd2(Len(col)) ELSE Std2(col)
    IN  [i \in 1..Len(col) |-> Divide(Centered(col)[i], std2)]

\* standardize_columns(data): column by column
standardize_columns(data) == [c \in 1..Len(data) |-> StandardizeColumn(data[c])]

\* y = (y - orig_y_mean) / orig_y_std
StandardizePhenotype(col) ==
    [i \in 1..Len(col) |-> Divide(Centered(col)[i], Std2(col))]

\* one entry of E / np.sqrt(K)
DivideBySqrt(v, k) ==
    IF v.cls = "finite" THEN Divide(v.num, k * v.std2) ELSE v

(***************************************************************************)
(* Allele coding: ensure_minor_allele_coding.                              *)
(***************************************************************************)
Count(vec, code) == Cardinality({i \in 1..Len(vec) : vec[i] = code})

\* a test that also flips on a tie: twos >= zeros
CoderFlipsOnTie(geno) == Count(geno, 2) >= Count(geno, 0)

\* the branch taken: twos > zeros
CoderFlips(geno) == Count(geno, 2) > Count(geno, 0)

\* a flip that starts from a copy of geno and never rewrites the 2s
FlippedKeepingTwos(geno) ==
    [i \in 1..Len(geno) |-> IF geno[i] = 0 THEN 2 ELSE geno[i]]

\* flipped = zeros_like(geno), then the three masked assignments
Flipped(geno) ==
    [i \in 1..Len(geno) |->
        CASE geno[i] = 0 -> 2
          [] geno[i] = 1 -> 1
          [] geno[i] = 2 -> 0
          [] OTHER -> 0]

ensure_minor_allele_coding(geno) ==
    IF CoderFlips(geno) THEN Flipped(geno) ELSE geno

(***************************************************************************)
(* Inputs: command lines and files the script can be given.                *)
(***************************************************************************)
NmId       == <<"i","d">>
NmValue    == <<"v","a","l","u","e">>
NmPhenoBin == <<"P","h","e","n","o","t","y","p","e","(","b","i","n","a","r","y",")">>
NmPhenoUp  == <<"m","y","_","P","H","E","N","O","T","Y","P","E">>
NmPheno    == <<"p","h","e","n","o">>
NmPC1      == <<"P","C","1">>
NmPC2      == <<"P","C","2">>
NmNotes    == <<"n","o","t","e","s">>
NmA        == <<"a">>
NmB        == <<"b">>
NmSnv      == <<"s","n","v">>
NmCov      == <<"a","g","e">>
NmTitle    == <<"l","o","c","a","l"," ","P","C","s">>
LineComment == <<"#","p","c","s">>
LineData    == <<"s","1",",","0",".","5">>

\* the values 1..n (sample identifiers, or a column that varies)
Ramp(n) == [i \in 1..n |-> i]

\* n copies of v
Const(n, v) == [i \in 1..n |-> v]

\* the content of a column of a --pcs file: PC2 and b are constant columns
PcsColumn(name, n) == IF name \in {NmPC2, NmB} THEN Const(n, 4) ELSE Ramp(n)

\* identifiers and free text are not numeric columns
IsNumeric(name) == name \notin {NmId, NmNotes}

\* the table pandas builds from a header line and n data lines
PcsTable(names, n) ==
    [columns |-> names,
     numeric |-> [i \in 1..Len(names) |-> IsNumeric(names[i])],
     data    |-> [i \in 1..Len(names) |-> PcsColumn(names[i], n)],
     rows    |-> n]

PcsHeaders == {<<NmId, NmPC1, NmPC2, NmNotes>>, <<NmId, NmA, NmB>>}

\* a --pcs file: its first line's fields, its second line (text and fields),
\* the number of lines after the second, and whether read_csv raises with
\* header=0 and with header=1
PcsFiles ==
    {[line1 |-> h, line2 |-> LineComment, line2_fields |-> <<>>, ndata |-> n,
      raises0 |-> FALSE, raises1 |-> FALSE] : h \in PcsHeaders, n \in 0..MaxN}
    \cup
    {[line1 |-> h, line2 |-> LineData, line2_fields |-> <<>>, ndata |-> n,
      raises0 |-> FALSE, raises1 |-> FALSE] : h \in PcsHeaders, n \in 0..MaxN}
    \cup
    {[line1 |-> <<NmTitle>>, line2 |-> NmId, line2_fields |-> h, ndata |-> n,
      raises0 |-> TRUE, raises1 |-> r] : h \in PcsHeaders, n \in 1..MaxN,
                                         r \in BOOLEAN}
    \cup
    {[line1 |-> <<NmPC1>>, line2 |-> LineComment, line2_fields |-> <<>>,
      ndata |-> 1, raises0 |-> FALSE, raises1 |-> FALSE]}

\* a table with an id column first (when named id) and the values vals elsewhere
ValueTable(names, vals) ==
    [columns |-> names,
     numeric |-> [i \in 1..Len(names) |-> TRUE],
     data    |-> [i \in 1..Len(names) |->
                    IF names[i] = NmId THEN Ramp(Len(vals)) ELSE vals],
     rows    |-> Len(vals)]

\* response values: a constant column and a varying one
PhenoValues(n) == {Const(n, 1), [i \in 1..n |-> i % 2]}

PhenoHeaders == {<<NmId, NmValue>>, <<NmId, NmPhenoBin>>, <<NmValue>>}

\* a file is [readable, table]
Unreadable == [readable |-> FALSE, table |-> NoTable]

PhenoFiles ==
    {[readable |-> TRUE, table |-> ValueTable(h, v)] :
        h \in PhenoHeaders, v \in UNION {PhenoValues(n) : n \in 1..MaxN}}
    \cup {Unreadable}

\* genotypes: one vector that is flipped and one that is not, per length
SnvValues(n) == {Const(n, 2), [i \in 1..n |-> (i - 1) % 3]}

SnvFiles ==
    {[readable |-> TRUE, table |-> ValueTable(<<NmId, NmSnv>>, v)] :
        v \in UNION {SnvValues(n) : n \in 1..MaxN}}
    \cup {[readable |-> TRUE, table |-> ValueTable(<<NmSnv>>, Const(1, 0))]}
    \cup {Unreadable}

CovFiles ==
    {[readable |-> TRUE, table |-> ValueTable(<<NmId, NmCov>>, Ramp(n))] :
        n \in 1..MaxN}
    \cup {Unreadable}

\* the file system of a run: without --covariates no covariate file is read
FileSystems(a) ==
    [pcs : PcsFiles, pheno : PhenoFiles, snv : SnvFiles,
     cov : IF Truthy(a.covariates) THEN CovFiles ELSE {Unreadable},
     output_writable : IF Truthy(a.output) THEN BOOLEAN ELSE {TRUE}]

PathCov == <<"c">>
PathOut == <<"o">>

\* parsed command lines (parse_args succeeded)
CommandLines ==
    [phenotype_column : {None, NmValue},
     covariates : {None, PathCov},
     output : {None, PathOut}]

(***************************************************************************)
(* State before the first block of main().                                 *)
(***************************************************************************)
NoError == [kind |-> "", cause |-> "", sizes |-> <<>>]

NoEngine == [calls |-> <<>>, null_lml |-> "unset", alt_lml |-> "unset"]

NothingEmitted ==
    [pv_printed |-> FALSE, ve_printed |-> FALSE,
     record_printed |-> FALSE, record_written |-> FALSE]

\* nothing computed yet
UnsetResults ==
    /\ phenotype_column = None
    /\ y = <<>>
    /\ orig_y = [sum |-> 0, n |-> 0, std2 |-> 0]
    /\ E = [columns |-> <<>>, rows |-> 0, data |-> <<>>, built |-> FALSE]
    /\ M = [built |-> FALSE, rows |-> 0, ncols |-> 0]
    /\ g_hist = <<>>
    /\ lmm = NoEngine
    /\ pv = -1
    /\ var_explained = [present |-> FALSE]
    /\ results = {}
    /\ out = NothingEmitted
    /\ stderr = NoError
    /\ exit_code = -1

Init ==
    /\ args \in CommandLines
    /\ files \in FileSystems(args)
    /\ pc = "read"
    /\ pcs_df = NoTable /\ pheno_df = NoTable
    /\ snv_df = NoTable /\ cov_df = NoTable
    /\ g = <<>>
    /\ UnsetResults

(***************************************************************************)
(* main(): one action per block.                                           *)
(***************************************************************************)
\* an error exit that reports success: sys.exit(0)
FailWithZero(kind, cause, sizes) ==
    /\ stderr' = [kind |-> kind, cause |-> cause, sizes |-> sizes]
    /\ exit_code' = 0
    /\ pc' = "done"

\* print(..., file=sys.stderr); sys.exit(1) -- and an uncaught exception,
\* which ends the interpreter with a traceback and exit status 1.  kind is
\* the message, cause the exception it carries ({e}), sizes the four counts
Fail(kind, cause, sizes) ==
    /\ stderr' = [kind |-> kind, cause |-> cause, sizes |-> sizes]
    /\ exit_code' = 1
    /\ pc' = "done"

Raised == [ok |-> FALSE, table |-> NoTable]

\* "Read PCs file": the three-line probe and the read_csv calls
ReadPcs(p) ==
    IF 2 + p.ndata < 3
    THEN Raised                                   \* next(f): StopIteration
    ELSE IF StartsWith(p.line2, StrHash)
         THEN IF p.raises0 \/ Len(p.line1) < 2
              THEN Raised                         \* no column for index_col=1
              ELSE [ok |-> TRUE,
                    table |-> SetIndex(PcsTable(p.line1, p.ndata), 2)]
         ELSE IF ~p.raises0
              THEN [ok |-> TRUE,
                    table |-> SetIndex(PcsTable(p.line1, p.ndata + 1), 1)]
              ELSE IF ~p.raises1
                   THEN [ok |-> TRUE,
                         table |-> SetIndex(PcsTable(p.line2_fields, p.ndata), 1)]
                   ELSE Raised

\* "Read input files": the try block
ReadInputs ==
    /\ pc = "read"
    /\ LET r == ReadPcs(files.pcs)
           ok == /\ r.ok
                 /\ files.pheno.readable
                 /\ files.snv.readable
                 /\ Truthy(args.covariates) => files.cov.readable
       IN  IF ok
           THEN /\ pcs_df' = r.table
                /\ pheno_df' = files.pheno.table
                /\ snv_df' = files.snv.table
                /\ cov_df' = IF Truthy(args.covariates)
                             THEN files.cov.table ELSE cov_df
                /\ pc' = "resolve"
                /\ UNCHANGED <<stderr, exit_code>>
           ELSE /\ Fail("Error reading input files", "read", <<>>)
                /\ UNCHANGED <<pcs_df, pheno_df, snv_df, cov_df>>
    /\ UNCHANGED <<args, files, phenotype_column, y, orig_y, E, M, g, g_hist,
                   lmm, pv, var_explained, results, out>>

\* "Determine phenotype column" and "Check if phenotype column exists"
ResolveColumn ==
    /\ pc = "resolve"
    /\ LET r == ResolvePhenotypeColumn(pheno_df.columns, args.phenotype_column)
       IN  IF r.status = "ok"
           THEN /\ phenotype_column' = r.column
                /\ pc' = "phenotype"
                /\ UNCHANGED <<stderr, exit_code>>
           ELSE /\ Fail(r.status, "", <<>>)
                /\ UNCHANGED phenotype_column
    /\ UNCHANGED <<args, files, pcs_df, pheno_df, snv_df, cov_df, y, orig_y, E,
                   M, g, g_hist, lmm, pv, var_explained, results, out>>

\* "Extract and standardize phenotype"
ExtractPhenotype ==
    /\ pc = "phenotype"
    /\ LET raw == ColumnData(pheno_df, phenotype_column)
       IN  /\ orig_y' = [sum |-> SumSeq(raw), n |-> Len(raw), std2 |-> Std2(raw)]
           /\ y' = StandardizePhenotype(raw)
    /\ pc' = "pcs"
    /\ UNCHANGED <<args, files, pcs_df, pheno_df, snv_df, cov_df,
                   phenotype_column, E, M, g, g_hist, lmm, pv, var_explained,
                   results, out, stderr, exit_code>>

\* pc_cols: the PC-prefixed columns, else the numeric columns (positions)
PcCols(df) ==
    LET byName == Positions([i \in 1..Len(df.columns) |->
                                StartsWith(df.columns[i], StrPC)])
    IN  IF byName # <<>> THEN byName ELSE Positions(df.numeric)

\* pcs_df after "if len(pc_cols) < len(pcs_df.columns)"
SelectPcColumns(df) ==
    IF Len(PcCols(df)) < Len(df.columns) THEN TakeColumns(df, PcCols(df)) ELSE df

\* E = standardize_columns(E); E = E / np.sqrt(E.shape[1])
BackgroundMatrix(df) ==
    LET std == standardize_columns(df.data)
    IN  [columns |-> df.columns,
         rows    |-> df.rows,
         data    |-> [c \in 1..Len(std) |->
                        [i \in 1..Len(std[c]) |->
                            DivideBySqrt(std[c][i], Len(df.columns))]],
         built   |-> TRUE]

\* "Process and extract PC data (environment matrix)"
ExtractPCs ==
    /\ pc = "pcs"
    /\ pcs_df' = SelectPcColumns(pcs_df)
    /\ E' = BackgroundMatrix(SelectPcColumns(pcs_df))
    /\ pc' = "covariates"
    /\ UNCHANGED <<args, files, pheno_df, snv_df, cov_df, phenotype_column, y,
                   orig_y, M, g, g_hist, lmm, pv, var_explained, results, out,
                   stderr, exit_code>>

\* "Create covariate matrix": np.concatenate raises ValueError when the two
\* blocks differ in rows, and nothing catches it
BuildCovariates ==
    /\ pc = "covariates"
    /\ IF Truthy(args.covariates)
       THEN IF cov_df.rows = Len(y)
            THEN /\ M' = [built |-> TRUE, rows |-> Len(y),
                          ncols |-> 1 + (Len(cov_df.columns) - 1)]
                 /\ pc' = "snv"
                 /\ UNCHANGED <<stderr, exit_code>>
            ELSE /\ Fail("Traceback", "ValueError in np.concatenate", <<>>)
                 /\ UNCHANGED M
       ELSE /\ M' = [built |-> TRUE, rows |-> Len(y), ncols |-> 1]
            /\ pc' = "snv"
            /\ UNCHANGED <<stderr, exit_code>>
    /\ UNCHANGED <<args, files, pcs_df, pheno_df, snv_df, cov_df,
                   phenotype_column, y, orig_y, E, g, g_hist, lmm, pv,
                   var_explained, results, out>>

\* one application of the allele coder, as recorded in g_hist
Coding(geno) ==
    [input |-> geno, flipped |-> CoderFlips(geno),
     output |-> ensure_minor_allele_coding(geno)]

\* "Process SNV data" and "Ensure minor allele coding"
ProcessSNV ==
    /\ pc = "snv"
    /\ IF Len(snv_df.columns) < 2
       THEN /\ Fail("SNV file must have at least 2 columns", "", <<>>)
            /\ UNCHANGED <<g, g_hist>>
       ELSE /\ g' = ensure_minor_allele_coding(snv_df.data[2])
            /\ g_hist' = Append(g_hist, Coding(snv_df.data[2]))
            /\ pc' = "check"
            /\ UNCHANGED <<stderr, exit_code>>
    /\ UNCHANGED <<args, files, pcs_df, pheno_df, snv_df, cov_df,
                   phenotype_column, y, orig_y, E, M, lmm, pv, var_explained,
                   results, out>>

\* a check that forgets the genotype vector
ConsistentWithoutG(ny, nE, nM, ng) == ny = nE /\ nE = nM

\* len(y) == E.shape[0] == M.shape[0] == len(g)
Consistent(ny, nE, nM, ng) == ny = nE /\ nE = nM /\ nM = ng

\* "Check for size consistency"
CheckConsistency ==
    /\ pc = "check"
    /\ IF Consistent(Len(y), E.rows, M.rows, Len(g))
       THEN /\ pc' = "construct"
            /\ UNCHANGED <<stderr, exit_code>>
       ELSE Fail("Inconsistent data sizes", "", <<Len(y), E.rows, M.rows, Len(g)>>)
    /\ UNCHANGED <<args, files, pcs_df, pheno_df, snv_df, cov_df,
                   phenotype_column, y, orig_y, E, M, g, g_hist, lmm, pv,
                   var_explained, results, out>>

(***************************************************************************)
(* The engine (struct_lmm.StructLMM) is an external collaborator: each of  *)
(* its calls either returns or raises, and its optional attributes         *)
(* null_lml and alt_lml are missing, None or a value.                      *)
(***************************************************************************)
PValues == {0, 1}

LmlStates == {"missing", "None", "value"}

Called(name) == \E i \in 1..Len(lmm.calls) : lmm.calls[i] = name

\* lmm = StructLMM(y, M, E)
EngineConstruct ==
    /\ pc = "construct"
    /\ lmm' = [lmm EXCEPT !.calls = Append(@, "StructLMM")]
    /\ \E raises \in BOOLEAN :
          IF raises
          THEN Fail("Error in StructLMM analysis", "StructLMM", <<>>)
          ELSE pc' = "fit" /\ UNCHANGED <<stderr, exit_code>>
    /\ UNCHANGED <<args, files, pcs_df, pheno_df, snv_df, cov_df,
                   phenotype_column, y, orig_y, E, M, g, g_hist, pv,
                   var_explained, results, out>>

\* lmm.fit()
EngineFit ==
    /\ pc = "fit"
    /\ lmm' = [lmm EXCEPT !.calls = Append(@, "fit")]
    /\ \E raises \in BOOLEAN :
          IF raises
          THEN Fail("Error in StructLMM analysis", "fit", <<>>)
          ELSE pc' = "score" /\ UNCHANGED <<stderr, exit_code>>
    /\ UNCHANGED <<args, files, pcs_df, pheno_df, snv_df, cov_df,
                   phenotype_column, y, orig_y, E, M, g, g_hist, pv,
                   var_explained, results, out>>

\* pv = lmm.score_2dof_inter(g)
EngineScore ==
    /\ pc = "score"
    /\ lmm' = [lmm EXCEPT !.calls = Append(@, "score_2dof_inter")]
    /\ \E raises \in BOOLEAN :
          IF raises
          THEN Fail("Error in StructLMM analysis", "score_2dof_inter", <<>>) /\ UNCHANGED pv
          ELSE /\ pv' \in PValues
               /\ pc' = "likelihoods"
               /\ UNCHANGED <<stderr, exit_code>>
    /\ UNCHANGED <<args, files, pcs_df, pheno_df, snv_df, cov_df,
                   phenotype_column, y, orig_y, E, M, g, g_hist,
                   var_explained, results, out>>

\* a computation that forgets the "is not None" test
VarExplainedWithoutNoneTest(null_lml, alt_lml) ==
    [present |-> null_lml # "missing" /\ alt_lml # "missing"]

\* the inner try: reading a missing attribute raises and the bare except
\* sets var_explained = None; so does a None value
VarExplained(null_lml, alt_lml) ==
    IF null_lml = "missing" \/ alt_lml = "missing"
    THEN [present |-> FALSE]
    ELSE IF null_lml # "None" /\ alt_lml # "None"
         THEN [present |-> TRUE]
         ELSE [present |-> FALSE]

\* "Try to get alternate and null likelihoods if available"
Likelihoods ==
    /\ pc = "likelihoods"
    /\ \E nl \in LmlStates, al \in LmlStates :
          /\ lmm' = [lmm EXCEPT !.null_lml = nl, !.alt_lml = al]
          /\ var_explained' = VarExplained(nl, al)
    /\ pc' = "report"
    /\ UNCHANGED <<args, files, pcs_df, pheno_df, snv_df, cov_df,
                   phenotype_column, y, orig_y, E, M, g, g_hist, pv, results,
                   out, stderr, exit_code>>

\* the keys of the results dict
ResultFields(ve) ==
    {"p_value", "n_samples", "n_pcs", "phenotype", "phenotype_mean",
     "phenotype_std"}
    \cup (IF ve.present THEN {"variance_explained"} ELSE {})

\* "Prepare results" and "Print or save results": the summary lines, then
\* to_csv (which raises when the path cannot be written) or to_string
Report ==
    /\ pc = "report"
    /\ results' = ResultFields(var_explained)
    /\ IF Truthy(args.output)
       THEN IF files.output_writable
            THEN /\ out' = [out EXCEPT !.pv_printed = TRUE,
                                       !.ve_printed = var_explained.present,
                                       !.record_written = TRUE]
                 /\ exit_code' = 0
                 /\ pc' = "done"
                 /\ UNCHANGED stderr
            ELSE /\ out' = [out EXCEPT !.pv_printed = TRUE,
                                       !.ve_printed = var_explained.present]
                 /\ Fail("Error in StructLMM analysis", "to_csv", <<>>)
       ELSE /\ out' = [out EXCEPT !.pv_printed = TRUE,
                                  !.ve_printed = var_explained.present,
                                  !.record_printed = TRUE]
            /\ exit_code' = 0
            /\ pc' = "done"
            /\ UNCHANGED stderr
    /\ UNCHANGED <<args, files, pcs_df, pheno_df, snv_df, cov_df,
                   phenotype_column, y, orig_y, E, M, g, g_hist, lmm, pv,
                   var_explained>>

Next ==
    \/ ReadInputs
    \/ ResolveColumn
    \/ ExtractPhenotype
    \/ ExtractPCs
    \/ BuildCovariates
    \/ ProcessSNV
    \/ CheckConsistency
    \/ EngineConstruct
    \/ EngineFit
    \/ EngineScore
    \/ Likelihoods
    \/ Report

\* a run of gxg-structlmm-script.py from the parsed command line on
Spec == Init /\ [][Next]_vars

(***************************************************************************)
(* The column resolution on its own: every phenotype table of up to        *)
(* MaxCols distinct column names, every value of --phenotype-column.       *)
(***************************************************************************)
ResolverNames == {NmId, NmValue, NmPhenoBin, NmPhenoUp, NmPheno}

\* pandas keeps column names distinct
ResolverHeaders ==
    {h \in UNION {[1..n -> ResolverNames] : n \in 1..MaxCols} :
        \A i, j \in 1..Len(h) : i # j => h[i] # h[j]}

\* not given, given empty, given as a name
ResolverOptions == {None, <<>>} \cup ResolverNames

\* the files beside the phenotype file, all readable
PlainPcsFile ==
    [line1 |-> <<NmId, NmPC1, NmPC2, NmNotes>>, line2 |-> LineData,
     line2_fields |-> <<>>, ndata |-> 1, raises0 |-> FALSE, raises1 |-> FALSE]

PlainSnvFile == [readable |-> TRUE, table |-> ValueTable(<<NmId, NmSnv>>, <<0, 1>>)]

\* the state main() is in when it reaches "Determine phenotype column"
InitResolve ==
    /\ args \in [phenotype_column : ResolverOptions, covariates : {None},
                  output : {None}]
    /\ files \in [pcs : {PlainPcsFile},
                   pheno : {[readable |-> TRUE, table |-> ValueTable(h, <<0, 1>>)] :
                               h \in ResolverHeaders},
                   snv : {PlainSnvFile}, cov : {Unreadable},
                   output_writable : {TRUE}]
    /\ pc = "resolve"
    /\ pcs_df = ReadPcs(files.pcs).table
    /\ pheno_df = files.pheno.table
    /\ snv_df = files.snv.table
    /\ cov_df = NoTable
    /\ g = <<>>
    /\ UnsetResults

NextResolve == ResolveColumn

SpecResolve == InitResolve /\ [][NextResolve]_vars

(***************************************************************************)
(* The allele coder on its own (WorkingLMMscript.py): g is read from the   *)
(* SNV table, then the cell g = ensure_minor_allele_coding(g) is run, and  *)
(* may be run again.                                                       *)
(***************************************************************************)
GenotypeCodes == {0, 1, 2}

GenotypeVectors == UNION {[1..n -> GenotypeCodes] : n \in 1..MaxLen}

InitCoder ==
    /\ args = [phenotype_column |-> None, covariates |-> None, output |-> None]
    /\ files = [pcs |-> PlainPcsFile, pheno |-> Unreadable, snv |-> PlainSnvFile,
                cov |-> Unreadable, output_writable |-> TRUE]
    /\ pc = "coding"
    /\ pcs_df = NoTable /\ pheno_df = NoTable
    /\ snv_df = NoTable /\ cov_df = NoTable
    /\ g \in GenotypeVectors
    /\ UnsetResults

\* g = ensure_minor_allele_coding(g)
RunCodingCell ==
    /\ pc = "coding"
    /\ Len(g_hist) < MaxPasses
    /\ g' = ensure_minor_allele_coding(g)
    /\ g_hist' = Append(g_hist, Coding(g))
    /\ UNCHANGED <<args, files, pc, pcs_df, pheno_df, snv_df, cov_df,
                   phenotype_column, y, orig_y, E, M, lmm, pv, var_explained,
                   results, out, stderr, exit_code>>

NextCoder == RunCodingCell

SpecCoder == InitCoder /\ [][NextCoder]_vars

(***************************************************************************)
(* Properties.                                                             *)
(***************************************************************************)
SixFields ==
    {"p_value", "n_samples", "n_pcs", "phenotype", "phenotype_mean",
     "phenotype_std"}

EngineCalls == <<"StructLMM", "fit", "score_2dof_inter">>

\* the four structures exist
Assembled == E.built /\ M.built /\ g_hist # <<>>

FourCountsEqual ==
    /\ Len(y) = E.rows
    /\ E.rows = M.rows
    /\ M.rows = Len(g)

\* the tables were read and do not have the same number of rows
InputRowsDiffer ==
    /\ pc # "read" /\ pheno_df # NoTable
    /\ \/ pheno_df.rows # pcs_df.rows
       \/ pheno_df.rows # snv_df.rows
       \/ Truthy(args.covariates) /\ cov_df.rows # pheno_df.rows

\* C1: the engine is constructed, fitted and scored only after the
\* consistency check has passed: whenever an engine call has been made,
\* len(y) = rows(E) = rows(M) = len(g); and a run whose four counts (or
\* whose input tables' row counts) are not all equal ends with exit code 1
\* without any engine call.
C1_EngineOnlyAfterCheck ==
    /\ lmm.calls # <<>> => Assembled /\ FourCountsEqual
    /\ Assembled /\ ~FourCountsEqual => lmm.calls = <<>>
    /\ InputRowsDiffer => lmm.calls = <<>>
    /\ pc = "done" /\ ((Assembled /\ ~FourCountsEqual) \/ InputRowsDiffer)
          => exit_code = 1

\* C1 witness: the engine was scored in a run with covariates
C1_Witness ==
    /\ Called("score_2dof_inter")
    /\ Truthy(args.covariates)
    /\ Len(y) = MaxN

\* the case of C2: y, E and g agree and the covariate file has another
\* number of rows
OnlyMDiffers ==
    /\ E.built
    /\ Truthy(args.covariates)
    /\ cov_df.rows # Len(y)
    /\ E.rows = Len(y)
    /\ snv_df.rows = Len(y)
    /\ Len(snv_df.columns) >= 2

\* C2: when M's row count differs from that of y, E and g, the run fails
\* with the dimension-mismatch error that reports the four observed
\* lengths, M's actual row count among them, before any engine call.
C2_MismatchOfMReported ==
    pc = "done" /\ OnlyMDiffers =>
        /\ exit_code = 1
        /\ lmm.calls = <<>>
        /\ stderr.kind = "Inconsistent data sizes"
        /\ stderr.sizes = <<Len(y), E.rows, cov_df.rows, snv_df.rows>>

\* an input file cannot be read
ReadFails ==
    \/ ~files.pheno.readable
    \/ ~files.snv.readable
    \/ Truthy(args.covariates) /\ ~files.cov.readable
    \/ files.pcs.ndata = 0
    \/ ~StartsWith(files.pcs.line2, StrHash) /\ files.pcs.raises0 /\ files.pcs.raises1

\* the phenotype column cannot be resolved in the table that was read
ResolutionFails ==
    /\ pheno_df # NoTable
    /\ \/ args.phenotype_column = NmValue /\ NmValue \notin ColumnSet(pheno_df)
       \/ args.phenotype_column = None /\ pheno_df.columns = <<NmValue>>

EngineFails == stderr.cause \in {"StructLMM", "fit", "score_2dof_inter"}

\* C3: a run ends with exit code 0 and a result record produced, or with
\* exit code 1 and no result record printed or written.  An input-read
\* failure, a phenotype-column resolution failure, a dimension mismatch and
\* an engine failure (an exception in construct, fit or score) each end the
\* run with exit code 1, nothing of the result emitted, and no engine call
\* made twice.
C3_ExitOutcomes ==
    /\ exit_code \in {-1, 0, 1}
    /\ (pc = "done") <=> (exit_code # -1)
    /\ pc = "done" =>
          \/ /\ exit_code = 0
             /\ out.record_printed \/ out.record_written
             /\ SixFields \subseteq results
          \/ /\ exit_code = 1
             /\ ~out.record_printed /\ ~out.record_written
    /\ pc = "done" /\ (ReadFails \/ ResolutionFails \/ InputRowsDiffer
                          \/ (Assembled /\ ~FourCountsEqual) \/ EngineFails)
          => exit_code = 1 /\ out = NothingEmitted /\ results = {}
    /\ lmm.calls = SubSeq(EngineCalls, 1, Len(lmm.calls))
    /\ EngineFails => stderr.cause = lmm.calls[Len(lmm.calls)]

\* C3 witness: a run ended by an exception of fit()
C3_Witness ==
    /\ pc = "done"
    /\ stderr.cause = "fit"
    /\ exit_code = 1

\* names of the inputs that contain "phenotype" whatever the case
PhenotypeLike == {NmPhenoBin, NmPhenoUp}

ResolvedTo(name) == pc = "phenotype" /\ phenotype_column = name

ResolutionFailed == pc = "done" /\ exit_code = 1 /\ phenotype_column = None

\* the fallback rules (2)-(4) of C4
ResolvedByFallback ==
    LET cols == pheno_df.columns
        like == {i \in 1..Len(cols) : cols[i] \in PhenotypeLike}
    IN  IF like # {}
        THEN ResolvedTo(cols[CHOOSE i \in like : \A j \in like : i <= j])
        ELSE IF Len(cols) > 1 THEN ResolvedTo(cols[2]) ELSE ResolutionFailed

\* rule (1) of C4
ResolvedExplicitly ==
    IF args.phenotype_column \in ColumnSet(pheno_df)
    THEN ResolvedTo(args.phenotype_column)
    ELSE ResolutionFailed

\* C4 as stated: (1) an explicit name, whenever one is given, is returned
\* if it is a column and the run fails if it is not; otherwise (2) the
\* first column whose name contains "phenotype" case-insensitively, (3) the
\* second column if there is more than one, (4) failure.
C4_ResolutionAsStated ==
    pc # "resolve" =>
        IF args.phenotype_column # None
        THEN ResolvedExplicitly
        ELSE ResolvedByFallback

\* C4 amended: rule (1) applies to a non-empty explicit name; an empty
\* name is treated as no name, and rules (2)-(4) apply.
C4_Resolution ==
    pc # "resolve" =>
        IF args.phenotype_column # None /\ args.phenotype_column # <<>>
        THEN ResolvedExplicitly
        ELSE ResolvedByFallback

\* C4 witness: no name given, two phenotype-like columns, the first in
\* table order is chosen
C4_Witness ==
    /\ pc = "phenotype"
    /\ args.phenotype_column = None
    /\ pheno_df.columns = <<NmId, NmPhenoUp, NmPhenoBin>>
    /\ phenotype_column = NmPhenoUp

\* C5: the coder returns a vector of the same length in the same order;
\* when twos > zeros every position is remapped 0->2, 1->1, 2->0, and
\* otherwise (ties included) the vector is returned unchanged.
C5_AlleleCoder ==
    \A k \in 1..Len(g_hist) :
        LET in == g_hist[k].input
            res == g_hist[k].output
            twos == Cardinality({i \in 1..Len(in) : in[i] = 2})
            zeros == Cardinality({i \in 1..Len(in) : in[i] = 0})
        IN  /\ Len(res) = Len(in)
            /\ g_hist[k].flipped <=> twos > zeros
            /\ IF twos > zeros
               THEN \A i \in 1..Len(in) : res[i] = 2 - in[i]
               ELSE res = in
            /\ k = Len(g_hist) => g = res

\* C5 witness: [0,0,0,1,1,2] was coded and came back unchanged
C5_Witness ==
    /\ Len(g_hist) = 1
    /\ g_hist[1].input = <<0, 0, 0, 1, 1, 2>>
    /\ g = <<0, 0, 0, 1, 1, 2>>

\* C6: after a flip the output has strictly more 0s than 2s, a second
\* application does not flip and returns it unchanged, and no output of
\* the coder has more 2s than 0s.
C6_StableAfterOnePass ==
    /\ \A k \in 1..Len(g_hist) :
          LET res == g_hist[k].output
              twos == Cardinality({i \in 1..Len(res) : res[i] = 2})
              zeros == Cardinality({i \in 1..Len(res) : res[i] = 0})
          IN  /\ twos <= zeros
              /\ g_hist[k].flipped => zeros > twos
    /\ Len(g_hist) >= 2 =>
          /\ ~g_hist[2].flipped
          /\ g_hist[2].output = g_hist[1].output
          /\ g = g_hist[1].output

\* C6 witness: [0,0,0,1,2,2,2,2,2] was flipped and then coded again
C6_Witness ==
    /\ Len(g_hist) = 2
    /\ g_hist[1].input = <<0, 0, 0, 1, 2, 2, 2, 2, 2>>
    /\ g_hist[1].flipped
    /\ g = <<2, 2, 2, 1, 0, 0, 0, 0, 0>>

AllSame(col) == \A i, j \in 1..Len(col) : col[i] = col[j]

AllZero(col) == \A i \in 1..Len(col) : col[i].cls = "finite" /\ col[i].num = 0

\* C7: a column whose values are all identical is standardized to a
\* constant zero column, without NaN or Inf, whether it is a column of the
\* background matrix or the response vector.
C7_ZeroVarianceSafe ==
    /\ E.built =>
          \A c \in 1..Len(E.columns) :
              AllSame(pcs_df.data[c]) => AllZero(E.data[c])
    /\ y # <<>> =>
          /\ \A i \in 1..Len(y) : y[i].cls = "finite"
          /\ AllSame(ColumnData(pheno_df, phenotype_column)) => AllZero(y)

\* the header fields read_csv took the column names from
PcsHeader ==
    IF StartsWith(files.pcs.line2, StrHash) \/ ~files.pcs.raises0
    THEN files.pcs.line1
    ELSE files.pcs.line2_fields

\* C8: with a second line that begins with '#', the names come from the
\* first line, the first column is the row index and every other column
\* is a data column, and the second line is skipped; otherwise the first
\* line is the header and the first column the index, with the header
\* taken from the second line only if that parse fails.
C8_PcsLoader ==
    pc = "resolve" =>
        /\ pcs_df.columns = Tail(PcsHeader)
        /\ pcs_df.rows =
              IF ~StartsWith(files.pcs.line2, StrHash) /\ ~files.pcs.raises0
              THEN files.pcs.ndata + 1
              ELSE files.pcs.ndata

\* names of the inputs that begin with "PC"
PcNamed == {NmPC1, NmPC2}

\* C9: E has exactly the columns of the file whose name begins with "PC",
\* in file order; only if there is none, the numeric columns other than
\* the identifier column; n_pcs is that number of columns.
C9_BackgroundColumns ==
    E.built =>
        LET named == SelectSeq(PcsHeader, LAMBDA n : n \in PcNamed)
            numbers == SelectSeq(Tail(PcsHeader), LAMBDA n : n \notin {NmId, NmNotes})
        IN  E.columns = IF named # <<>> THEN named ELSE numbers

LikelihoodsAvailable == lmm.null_lml = "value" /\ lmm.alt_lml = "value"

\* C10: the result record has the field variance_explained exactly when
\* the engine exposes null_lml and alt_lml, both not None; when one is
\* missing (reading it raises) or None, the field is absent, the record
\* has the six other fields, and the run goes on to exit code 0 (unless
\* writing --output fails).
C10_VarianceExplainedOptional ==
    /\ results # {} =>
          /\ SixFields \subseteq results
          /\ results \subseteq SixFields \cup {"variance_explained"}
          /\ "variance_explained" \in results <=> LikelihoodsAvailable
    /\ pc \in {"report", "done"} /\ pv # -1 =>
          /\ var_explained.present <=> LikelihoodsAvailable
          /\ out.ve_printed => LikelihoodsAvailable
    /\ pc = "done" /\ pv # -1 /\ files.output_writable =>
          /\ exit_code = 0
          /\ out.record_printed \/ out.record_written

\* C10 witness: null_lml has a value and alt_lml is None; the run ended
\* with exit code 0 and the six fields
C10_Witness ==
    /\ pc = "done"
    /\ exit_code = 0
    /\ lmm.null_lml = "value"
    /\ lmm.alt_lml = "None"
    /\ results = SixFields

====
